---- MODULE Spec2Model ----
(***************************************************************************)
(* Model of the discord-bedtime bot: the per-user settings kept in         *)
(* State.users, the commands and the presence handler that change them,    *)
(* the background task update_sched spawns for an eligible user, and the   *)
(* state file written by State::save and read by State::load.             *)
(*                                                                         *)
(* A background task is the future spawned by sched_bedtime.  It runs on   *)
(* a multi-threaded executor, so it advances concurrently with the         *)
(* handlers; its position is cut at every access to shared memory (the     *)
(* two atomic flags) and at every .await that suspends.  JoinHandle::abort *)
(* does not wait: a task suspended at an .await is dropped there, a task   *)
(* that is being polled runs on until its next suspending .await.          *)
(***************************************************************************)
EXTENDS Integers, FiniteSets, Sequences, TLC

\* ------------------------------------------------------------ bounds
\* Tasks of one user that can exist beside the one the user's JoinHandle
\* refers to: tasks whose handle update_sched has overwritten and that have
\* not yet ended.
MaxDetached == 1
\* Worker threads of the executor.
NumWorkers == 2

\* ------------------------------------------------------------ values
UserIds == {"u1", "u2"}
\* chrono_tz::Tz values (variants of the enum)
TimeZones == {"Europe__Berlin"}
\* Time values: the hour and minute of the NaiveTime (Time::from_str never
\* produces seconds).
Bedtimes == {[hour |-> 22, minute |-> 30], [hour |-> 23, minute |-> 0]}
\* Option: None and Some(v).  A Result is written the same way, Err as None
\* and Ok(v) as Some(v).
None == <<>>
Some(v) == <<v>>
\* The spawned futures of one user: Held is the one UserInfo.sched refers
\* to, the others are those whose JoinHandle has been dropped.
Held == 0
Refs == 0..MaxDetached
DetachedRefs == 1..MaxDetached

\* ------------------------------------------------------------ text
Digits == <<"0", "1", "2", "3", "4", "5", "6", "7", "8", "9">>
Digit(d) == Digits[d + 1]
IsDigit(c) == \E d \in 0..9 : Digit(d) = c
DigitVal(c) == CHOOSE d \in 0..9 : Digit(d) = c
TwoDigits(n) == Digit(n \div 10) \o Digit(n % 10)
\* The i-th character of s and s without its first n characters.
Char(s, i) == SubSeq(s, i, i)
Rest(s, n) == SubSeq(s, n + 1, Len(s))

\* A number of one or two digits at the head of s: its length (0 if s does
\* not start with a digit) and its value.
NumLen(s) ==
    IF Len(s) >= 2 /\ IsDigit(Char(s, 1)) /\ IsDigit(Char(s, 2)) THEN 2
    ELSE IF Len(s) >= 1 /\ IsDigit(Char(s, 1)) THEN 1 ELSE 0
NumVal(s, n) ==
    IF n = 2 THEN 10 * DigitVal(Char(s, 1)) + DigitVal(Char(s, 2))
    ELSE DigitVal(Char(s, 1))

\* Tz::name
TzName(tz) == CASE tz = "Europe__Berlin" -> "Europe/Berlin"

\* Tz::from_str: the name of a variant, or an error.
ParseTz(s) ==
    IF \E tz \in TimeZones : TzName(tz) = s
    THEN Some(CHOOSE tz \in TimeZones : TzName(tz) = s)
    ELSE None

\* Display for Time, format "%I:%M %p": 12-hour clock, both numbers padded
\* to two digits, AM or PM.
\* (The text of every time of day is tabulated by minute of the day.)
Hour12(h) == IF h % 12 = 0 THEN 12 ELSE h % 12
MinuteOfDay(t) == 60 * t.hour + t.minute
TimeText ==
    [n \in 0..1439 |->
        TwoDigits(Hour12(n \div 60)) \o ":" \o TwoDigits(n % 60) \o " "
            \o (IF n \div 60 < 12 THEN "AM" ELSE "PM")] @@ <<>>
TimeToString(t) == TimeText[MinuteOfDay(t)]

\* FromStr for Time, format "%I:%M %p": an hour 1..12, a colon, a minute
\* 0..59, a space and AM or PM in either case; anything else is an error.
TimeFromStr(s) ==
    LET n1 == NumLen(s)
        h  == NumVal(s, n1)
        s1 == Rest(s, n1)
        s2 == Rest(s1, 1)
        n2 == NumLen(s2)
        m  == NumVal(s2, n2)
        s3 == Rest(s2, n2)
        s4 == Rest(s3, 1)
        am == s4 \in {"AM", "Am", "aM", "am"}
        pm == s4 \in {"PM", "Pm", "pM", "pm"}
    IN  IF \/ n1 = 0 \/ h \notin 1..12
           \/ Len(s1) = 0 \/ Char(s1, 1) # ":"
           \/ n2 = 0 \/ m > 59
           \/ Len(s3) = 0 \/ Char(s3, 1) # " "
           \/ ~(am \/ pm)
        THEN None
        ELSE Some([hour |-> (h % 12) + (IF pm THEN 12 ELSE 0), minute |-> m])

\* Faulty variant of SerTime: the hour is written on the 12-hour clock.
SerTime12(t) == SubSeq(TimeText[MinuteOfDay(t)], 1, 5) \o ":00"

\* serde of the NaiveTime inside Time: "HH:MM:SS" on a 24-hour clock.
SerTimeText == [n \in 0..1439 |-> TwoDigits(n \div 60) \o ":" \o TwoDigits(n % 60) \o ":00"] @@ <<>>
SerTime(t) == SerTimeText[MinuteOfDay(t)]
DeTime(s) ==
    IF /\ Len(s) = 8
       /\ \A i \in {1, 2, 4, 5} : IsDigit(Char(s, i))
       /\ Char(s, 3) = ":" /\ SubSeq(s, 6, 8) = ":00"
       /\ NumVal(s, 2) <= 23 /\ NumVal(Rest(s, 3), 2) <= 59
    THEN Some([hour |-> NumVal(s, 2), minute |-> NumVal(Rest(s, 3), 2)])
    ELSE None

VARIABLES
    users,          \* keys of State.users
    on,             \* UserInfo.on
    time_zone,      \* UserInfo.time_zone
    bedtime,        \* UserInfo.bedtime
    awake,          \* UserInfo.awake (AtomicBool)
    allowed_awake,  \* UserInfo.allowed_awake (AtomicBool)
    sched,          \* UserInfo.sched: the task the handle refers to, NoTask for None
    detached,       \* detached[u][r]: tasks of u whose handle was overwritten
    file,           \* contents of state.json
    result          \* CommandResult of the last command handler: "Ok" or "Err"

vars == <<users, on, time_zone, bedtime, awake, allowed_awake, sched, detached, file, result>>

\* ------------------------------------------------------------ tasks
\* Positions of a spawned future.
\*   waiting  : suspended in tokio::time::sleep between run_pending calls
\*   entry    : polled, job due, nag_loop entered, before the store of line 94
\*   check    : at the load of allowed_awake, line 96
\*   nag      : in maybe_nag at the load of awake, line 77
\*   dm       : suspended in create_dm_channel(..).await, line 68
\*   say      : suspended in chan.say(..).await, line 59
\*   cooldown : in std::thread::sleep, line 83 (blocks the worker thread)
AwaitPcs == {"waiting", "dm", "say"}
RunningPcs == {"entry", "check", "nag", "cooldown"}
EpisodePcs == {"check", "nag", "dm", "say", "cooldown"}
AllPcs == AwaitPcs \cup RunningPcs \cup {"none"}

\* No task: Option::None of sched, or an unused place of detached.
NoTask == [pc |-> "none", aborted |-> FALSE, tz |-> None, bt |-> None]

\* The future sched_bedtime spawns: suspended until its trigger.
NewTask(tz, bt) == [pc |-> "waiting", aborted |-> FALSE, tz |-> tz, bt |-> bt]

\* Faulty variant of Eligible: the on flag is not consulted.
EligibleIgnoringOn(o, tz, bt) == tz # None /\ bt # None

\* The match of update_sched, lines 137-145: a user is scheduled only with on
\* true and both time zone and bedtime set.
Eligible(o, tz, bt) == o /\ tz # None /\ bt # None

\* Faulty variant of Abort: the abort of lines 134-136 is left out.
AbortOmitted(tk) == tk

\* JoinHandle::abort: a suspended task is dropped, a task being polled is
\* only marked and runs on.
Abort(tk) == IF tk.pc \in AwaitPcs THEN NoTask ELSE [tk EXCEPT !.aborted = TRUE]

\* A task reaching a suspending .await at position p: dropped there if aborted.
Yield(tk, p) == IF tk.aborted THEN NoTask ELSE [tk EXCEPT !.pc = p]

\* Task r of user u.
TaskAt(u, r) == IF r = Held THEN sched[u] ELSE detached[u][r]

\* Tasks that hold a worker thread.
Running == {<<u, r>> \in UserIds \X Refs : TaskAt(u, r).pc \in RunningPcs}
FreeWorker == Cardinality(Running) < NumWorkers

\* ------------------------------------------------------------ update_sched
\* What lines 134-136 leave of the task the handle referred to.
AfterAbort(u) == IF sched[u] = NoTask THEN NoTask ELSE Abort(sched[u])

FreeRefs(u) == {r \in DetachedRefs : detached[u][r] = NoTask}
FirstFree(u) == CHOOSE r \in FreeRefs(u) : \A q \in FreeRefs(u) : r <= q

\* The assignment to self.sched drops the old JoinHandle; a task that is
\* still there runs on detached.  Its time zone and bedtime, which only set
\* the instant of its trigger, are not kept.
Detach(u, old) ==
    IF old = NoTask THEN UNCHANGED detached
    ELSE /\ FreeRefs(u) # {}
         /\ detached' = [detached EXCEPT
                            ![u][FirstFree(u)] = [old EXCEPT !.tz = None, !.bt = None]]

\* Faulty variant of update_sched: a user who already holds a task keeps it
\* instead of getting a new one.
update_sched_keeping(u, o, tz, bt) ==
    IF Eligible(o, tz, bt) /\ sched[u] # NoTask
    THEN UNCHANGED <<sched, detached>>
    ELSE /\ Detach(u, AfterAbort(u))
         /\ sched' = [sched EXCEPT ![u] = IF Eligible(o, tz, bt) THEN NewTask(tz, bt) ELSE NoTask]

\* update_sched with the settings o, tz, bt already assigned to the user.
update_sched(u, o, tz, bt) ==
    /\ Detach(u, AfterAbort(u))
    /\ sched' = [sched EXCEPT ![u] = IF Eligible(o, tz, bt) THEN NewTask(tz, bt) ELSE NoTask]

\* ------------------------------------------------------------ state file
\* What serde writes for one user: on, time_zone, bedtime (the other fields
\* are #[serde(skip)]).
\* An absent time zone or bedtime is written as null (None here), a time zone
\* as its name and a bedtime as the text of its NaiveTime.
NoRecord == [present |-> FALSE, on |-> TRUE, time_zone |-> None, bedtime |-> None]
Record(o, tz, bt) ==
    [present |-> TRUE, on |-> o,
     time_zone |-> IF tz = None THEN None ELSE Some(TzName(tz[1])),
     bedtime |-> IF bt = None THEN None ELSE Some(SerTime(bt[1]))]

\* Faulty variant of save: the map is written as it was before the command.
save_before_update ==
    file' = [u \in UserIds |->
                IF u \in users THEN Record(on[u], time_zone[u], bedtime[u])
                ELSE NoRecord]

\* State::save after the command: the whole map is rewritten.
save ==
    file' = [u \in UserIds |->
                IF u \in users' THEN Record(on'[u], time_zone'[u], bedtime'[u])
                ELSE NoRecord]

\* ------------------------------------------------------------ initial state
\* Process start with no state file: State::load gives State::default().
Init ==
    /\ users = {}
    /\ on = [u \in UserIds |-> TRUE]
    /\ time_zone = [u \in UserIds |-> None]
    /\ bedtime = [u \in UserIds |-> None]
    /\ awake = [u \in UserIds |-> TRUE]
    /\ allowed_awake = [u \in UserIds |-> TRUE]
    /\ sched = [u \in UserIds |-> NoTask]
    /\ detached = [u \in UserIds |-> [r \in DetachedRefs |-> NoTask]]
    /\ file = [u \in UserIds |-> NoRecord]
    /\ result = "Ok"

\* ------------------------------------------------------------ commands
\* Every handler runs as a task of the executor and holds the write lock on
\* the context data from its first line to its last.
CmdTimeZone(u, tz) ==
    /\ FreeWorker
    /\ users' = users \cup {u}
    /\ result' = "Ok"
    /\ time_zone' = [time_zone EXCEPT ![u] = Some(tz)]
    /\ UNCHANGED <<on, bedtime, awake, allowed_awake>>
    /\ update_sched(u, on[u], Some(tz), bedtime[u])
    /\ save

CmdBedtime(u, bt) ==
    /\ FreeWorker
    /\ users' = users \cup {u}
    /\ result' = "Ok"
    /\ bedtime' = [bedtime EXCEPT ![u] = Some(bt)]
    /\ UNCHANGED <<on, time_zone, awake, allowed_awake>>
    /\ update_sched(u, on[u], time_zone[u], Some(bt))
    /\ save

\* Faulty variant of CmdOn: a user who is already on keeps the task held.
CmdOnIfOff(u) ==
    /\ FreeWorker
    /\ users' = users \cup {u}
    /\ result' = "Ok"
    /\ on' = [on EXCEPT ![u] = TRUE]
    /\ UNCHANGED <<time_zone, bedtime, awake, allowed_awake>>
    /\ IF on[u] THEN UNCHANGED <<sched, detached>>
                ELSE update_sched(u, TRUE, time_zone[u], bedtime[u])
    /\ save

CmdOn(u) ==
    /\ FreeWorker
    /\ users' = users \cup {u}
    /\ result' = "Ok"
    /\ on' = [on EXCEPT ![u] = TRUE]
    /\ UNCHANGED <<time_zone, bedtime, awake, allowed_awake>>
    /\ update_sched(u, TRUE, time_zone[u], bedtime[u])
    /\ save

CmdOff(u) ==
    /\ FreeWorker
    /\ users' = users \cup {u}
    /\ result' = "Ok"
    /\ on' = [on EXCEPT ![u] = FALSE]
    /\ UNCHANGED <<time_zone, bedtime, awake, allowed_awake>>
    /\ update_sched(u, FALSE, time_zone[u], bedtime[u])
    /\ save

\* Faulty variant of CmdWake: the flag of every user is set.
CmdWakeAll(u) ==
    /\ FreeWorker
    /\ users' = users \cup {u}
    /\ result' = "Ok"
    /\ allowed_awake' = [v \in UserIds |-> TRUE]
    /\ UNCHANGED <<on, time_zone, bedtime, awake, sched, detached, file>>

CmdWake(u) ==
    /\ FreeWorker
    /\ users' = users \cup {u}
    /\ result' = "Ok"
    /\ allowed_awake' = [allowed_awake EXCEPT ![u] = TRUE]
    /\ UNCHANGED <<on, time_zone, bedtime, awake, sched, detached, file>>

CmdInfo(u) ==
    /\ FreeWorker
    /\ users' = users \cup {u}
    /\ result' = "Ok"
    /\ UNCHANGED <<on, time_zone, bedtime, awake, allowed_awake, sched, detached, file>>

\* Display for UserInfo: the three values the reply of info shows, after
\* their labels "on", "time zone" and "bedtime".
Display(o, tz, bt) ==
    [on |-> IF o THEN "true" ELSE "false",
     time_zone |-> IF tz = None THEN "none" ELSE TzName(tz[1]),
     bedtime |-> IF bt = None THEN "none" ELSE TimeToString(bt[1])]

\* The text info replies with for user u (the entry of an unknown user is
\* created from Default).
describe(u) == Display(on[u], time_zone[u], bedtime[u])

\* serenity's OnlineStatus values a presence event carries (of DoNotDisturb,
\* Idle, Invisible, Offline, Online).
OnlineStatuses == {"Online", "Idle", "Offline"}

\* Faulty variant of presence_awake: only Online counts as awake.
presence_awake_online_only(status) == status = "Online"

\* The match on presence.status: Offline => asleep(), _ => awake().
presence_awake(status) == status # "Offline"

\* presence_update: offline clears the awake flag, any other status sets it.
PresenceUpdate(u, status) ==
    /\ FreeWorker
    /\ users' = users \cup {u}
    /\ awake' = [awake EXCEPT ![u] = presence_awake(status)]
    /\ UNCHANGED <<on, time_zone, bedtime, allowed_awake, sched, detached, file, result>>

\* Argument texts a user can type after time_zone and after bedtime.
TzArgs == {"Europe/Berlin", "Mars/Phobos"}
TimeArgs == {"10:30 PM", "11:00 pm", "22:30"}

\* Faulty variant of ParseError: the user's entry is created before the
\* handler returns.
ParseErrorAfterEntry(u) ==
    /\ result' = "Err"
    /\ FreeWorker
    /\ users' = users \cup {u}
    /\ UNCHANGED <<on, time_zone, bedtime, awake, allowed_awake, sched, detached, file>>

\* args.parse()? fails: the handler returns the error from its first line,
\* before it takes the lock or looks up the entry.
ParseError(u) ==
    /\ result' = "Err"
    /\ FreeWorker
    /\ UNCHANGED <<users, on, time_zone, bedtime, awake, allowed_awake, sched, detached, file>>

\* The time_zone and bedtime handlers from the argument text on.
cmd_time_zone(u, arg) ==
    LET tz == ParseTz(arg)
    IN  IF tz = None THEN ParseError(u) ELSE CmdTimeZone(u, tz[1])

cmd_bedtime(u, arg) ==
    LET tm == TimeFromStr(arg)
    IN  IF tm = None THEN ParseError(u) ELSE CmdBedtime(u, tm[1])

\* ------------------------------------------------------------ task steps
SetTask(u, r, tk) ==
    IF r = Held
    THEN sched' = [sched EXCEPT ![u] = tk] /\ UNCHANGED detached
    ELSE detached' = [detached EXCEPT ![u][r] = tk] /\ UNCHANGED sched

\* The timer ends, the task is polled, run_pending finds the job due and
\* calls nag_loop.
Fire(u, r) ==
    /\ TaskAt(u, r).pc = "waiting"
    /\ FreeWorker
    /\ SetTask(u, r, [TaskAt(u, r) EXCEPT !.pc = "entry"])
    /\ UNCHANGED <<users, on, time_zone, bedtime, awake, allowed_awake, file, result>>

\* Faulty variant of NagEntry: nag_loop is entered without the store.
NagEntryNoStore(u, r) ==
    /\ TaskAt(u, r).pc = "entry"
    /\ SetTask(u, r, [TaskAt(u, r) EXCEPT !.pc = "check"])
    /\ UNCHANGED <<users, on, time_zone, bedtime, awake, allowed_awake, file, result>>

\* nag_loop line 94
NagEntry(u, r) ==
    /\ TaskAt(u, r).pc = "entry"
    /\ allowed_awake' = [allowed_awake EXCEPT ![u] = FALSE]
    /\ SetTask(u, r, [TaskAt(u, r) EXCEPT !.pc = "check"])
    /\ UNCHANGED <<users, on, time_zone, bedtime, awake, file, result>>

\* Faulty variant of CheckStep: the loop never breaks.
CheckStepNoBreak(tk, allowed) == [tk EXCEPT !.pc = "nag"]

\* nag_loop lines 96-98: break leaves nag_loop and run_pending, and the task
\* suspends in tokio::time::sleep.
CheckStep(tk, allowed) == IF allowed THEN Yield(tk, "waiting") ELSE [tk EXCEPT !.pc = "nag"]

NagCheck(u, r) ==
    /\ TaskAt(u, r).pc = "check"
    /\ SetTask(u, r, CheckStep(TaskAt(u, r), allowed_awake[u]))
    /\ UNCHANGED <<users, on, time_zone, bedtime, awake, allowed_awake, file, result>>

\* Faulty variant of NagStep: the loop is left when the user is asleep.
NagStepLeavesWhenAsleep(tk, isAwake) ==
    IF isAwake THEN Yield(tk, "dm") ELSE Yield(tk, "waiting")

\* maybe_nag lines 77-84: awake leads to send_nag_msg, which suspends in
\* create_dm_channel; otherwise maybe_nag returns at once and nag_loop is
\* back at its check without having suspended.
NagStep(tk, isAwake) == IF isAwake THEN Yield(tk, "dm") ELSE [tk EXCEPT !.pc = "check"]

MaybeNag(u, r) ==
    /\ TaskAt(u, r).pc = "nag"
    /\ SetTask(u, r, NagStep(TaskAt(u, r), awake[u]))
    /\ UNCHANGED <<users, on, time_zone, bedtime, awake, allowed_awake, file, result>>

\* Faulty variant of DmStep: a failed create_dm_channel skips the cooldown.
DmStepSkipsCooldown(tk, ok) == IF ok THEN Yield(tk, "say") ELSE [tk EXCEPT !.pc = "check"]

\* send_nag_msg lines 68-72: Ok(dm) goes on to chan.say, which suspends;
\* Err is logged and maybe_nag goes on to its sleep.
DmStep(tk, ok) == IF ok THEN Yield(tk, "say") ELSE [tk EXCEPT !.pc = "cooldown"]

DmDone(u, r, ok) ==
    /\ TaskAt(u, r).pc = "dm"
    /\ FreeWorker
    /\ SetTask(u, r, DmStep(TaskAt(u, r), ok))
    /\ UNCHANGED <<users, on, time_zone, bedtime, awake, allowed_awake, file, result>>

\* Faulty variant of SayStep: a failed send takes the task out of nag_loop.
SayStepFailureEnds(tk, ok) == IF ok THEN [tk EXCEPT !.pc = "cooldown"] ELSE Yield(tk, "waiting")

\* send_nag_msg_in_dm lines 59-62: the result of chan.say, Ok or Err, is
\* only logged and maybe_nag goes on to its sleep.
SayStep(tk, ok) == [tk EXCEPT !.pc = "cooldown"]

SayDone(u, r, ok) ==
    /\ TaskAt(u, r).pc = "say"
    /\ FreeWorker
    /\ SetTask(u, r, SayStep(TaskAt(u, r), ok))
    /\ UNCHANGED <<users, on, time_zone, bedtime, awake, allowed_awake, file, result>>

\* maybe_nag line 83 returns.
CooldownDone(u, r) ==
    /\ TaskAt(u, r).pc = "cooldown"
    /\ SetTask(u, r, [TaskAt(u, r) EXCEPT !.pc = "check"])
    /\ UNCHANGED <<users, on, time_zone, bedtime, awake, allowed_awake, file, result>>

\* ------------------------------------------------------------ specification
Command ==
    \E u \in UserIds :
        \/ \E tz \in TimeZones : CmdTimeZone(u, tz)
        \/ \E bt \in Bedtimes : CmdBedtime(u, bt)
        \/ CmdOn(u)
        \/ CmdOff(u)
        \/ CmdWake(u)
        \/ CmdInfo(u)
        \/ \E status \in OnlineStatuses : PresenceUpdate(u, status)

TaskStep(u, r) ==
    \/ Fire(u, r)
    \/ NagEntry(u, r)
    \/ NagCheck(u, r)
    \/ MaybeNag(u, r)
    \/ \E ok \in BOOLEAN : DmDone(u, r, ok)
    \/ \E ok \in BOOLEAN : SayDone(u, r, ok)
    \/ CooldownDone(u, r)

Next == Command \/ \E u \in UserIds, r \in Refs : TaskStep(u, r)

Spec == Init /\ [][Next]_vars

\* ------------------------------------------------------------ restart
\* State::load of an existing file: serde fills on, time_zone and bedtime
\* from the record and each skipped field (awake, allowed_awake, sched) from
\* Default of the field's own type, not from Default for UserInfo:
\* Arc<AtomicBool>::default() holds false and Option::default() is None.
\* A user with no record has no entry; or_default creates it on first
\* reference from Default for UserInfo (flags true).
load ==
    /\ users' = {u \in UserIds : file[u].present}
    /\ on' = [u \in UserIds |-> file[u].on]
    /\ time_zone' = [u \in UserIds |->
                        IF file[u].time_zone = None THEN None
                        ELSE ParseTz(file[u].time_zone[1])]
    /\ bedtime' = [u \in UserIds |->
                      IF file[u].bedtime = None THEN None
                      ELSE DeTime(file[u].bedtime[1])]
    /\ awake' = [u \in UserIds |-> ~file[u].present]
    /\ allowed_awake' = [u \in UserIds |-> ~file[u].present]
    /\ sched' = [u \in UserIds |-> NoTask]

\* The process ends, taking every spawned task with it, and is started
\* again: config_client inserts State::load() into the client data.
Restart ==
    /\ load
    /\ detached' = [u \in UserIds |-> [r \in DetachedRefs |-> NoTask]]
    /\ UNCHANGED file
    /\ result' = "Ok"

NextRestart == Next \/ Restart

SpecRestart == Init /\ [][NextRestart]_vars

\* ------------------------------------------------------------ argument texts
\* The commands as the framework dispatches them: time_zone and bedtime get
\* the text after the command name.
CommandArgs ==
    \E u \in UserIds :
        \/ \E arg \in TzArgs : cmd_time_zone(u, arg)
        \/ \E arg \in TimeArgs : cmd_bedtime(u, arg)
        \/ CmdOn(u)
        \/ CmdOff(u)
        \/ CmdWake(u)
        \/ CmdInfo(u)
        \/ \E status \in OnlineStatuses : PresenceUpdate(u, status)

NextArgs == CommandArgs \/ \E u \in UserIds, r \in Refs : TaskStep(u, r)

SpecArgs == Init /\ [][NextArgs]_vars

\* ------------------------------------------------------------ fairness
\* A task that holds a worker thread keeps executing; a suspended task whose
\* timer or request has completed is polled once a worker thread is free.
\* Nothing obliges a user to issue a command or to change presence.
Resume(u, r) == Fire(u, r) \/ (\E ok \in BOOLEAN : DmDone(u, r, ok) \/ SayDone(u, r, ok))
Proceed(u, r) == NagEntry(u, r) \/ NagCheck(u, r) \/ MaybeNag(u, r) \/ CooldownDone(u, r)

Fairness ==
    \A u \in UserIds, r \in Refs : WF_vars(Proceed(u, r)) /\ SF_vars(Resume(u, r))

FairSpec == Spec /\ Fairness

\* ------------------------------------------------------------ observations
\* Task r of user u in the next state.
TaskAtNext(u, r) == IF r = Held THEN sched'[u] ELSE detached'[u][r]

\* The spawned futures of user u that still exist.
Live(u) == {r \in Refs : TaskAt(u, r) # NoTask}

\* A step of one of the four configuration commands for user u.
Setter(u) ==
    \/ \E tz \in TimeZones : CmdTimeZone(u, tz)
    \/ \E bt \in Bedtimes : CmdBedtime(u, bt)
    \/ CmdOn(u)
    \/ CmdOff(u)

\* What every configuration command of user u leaves alone: the presence and
\* acknowledgement flags, the tasks of the other users and the tasks u had
\* already detached; and a held task that is executing is moved among the
\* detached ones.  Every step of Setter(u) satisfies it.
CommandFrame(u) ==
    /\ awake' = awake
    /\ allowed_awake' = allowed_awake
    /\ \A v \in UserIds \ {u} : sched'[v] = sched[v] /\ detached'[v] = detached[v]
    /\ \A r \in DetachedRefs : detached[u][r] # NoTask => detached'[u][r] = detached[u][r]
    /\ sched[u].pc \in RunningPcs => detached'[u] # detached[u]

\* Task r of user u itself takes a step (no command replaces or detaches it)
\* from position p to position q.
Moves(u, r, p, q) ==
    /\ TaskAt(u, r).pc = p
    /\ TaskAtNext(u, r).pc = q
    /\ IF r = Held THEN detached'[u] = detached[u] ELSE sched'[u] = sched[u]

\* Task r of user u calls chan.say: a reminder is sent.
SendsReminder(u, r) == Moves(u, r, "dm", "say")

\* Task r of user u calls send_nag_msg: a reminder is attempted.
AttemptsReminder(u, r) == Moves(u, r, "nag", "dm")

\* Task r of user u executes the store of nag_loop line 94: an episode starts.
StartsEpisode(u, r) == Moves(u, r, "entry", "check")

\* Task r of user u leaves nag_loop through its break and suspends until the
\* next day's trigger.
Rearms(u, r) == Moves(u, r, "check", "waiting")

\* The held task of user u is inside nag_loop.
InEpisode(u) == sched[u].pc \in EpisodePcs

\* ------------------------------------------------------------ claims

\* C1: for every user, at most one background task is live at any time; once
\* update_sched has armed a replacement, the replaced task no longer exists.
C1_AtMostOneLiveTask == \A u \in UserIds : Cardinality(Live(u)) <= 1

\* C2: the off command leaves the user with no task handle, and a reminder is
\* sent to a user only by the task the user holds while the user is enabled;
\* so after off no reminder is sent until a later on has armed a new task and
\* that task's trigger has fired.
C2_DisableSilences ==
    [][\A u \in UserIds :
          /\ CmdOff(u) => sched'[u] = NoTask /\ ~on'[u]
          /\ \A r \in Refs :
                SendsReminder(u, r) => on[u] /\ r = Held /\ ~TaskAt(u, r).aborted]_vars

\* C2 witness: off has completed while the user's task was in its cooldown
\* sleep: the user is disabled, holds no handle, and the aborted task still runs.
C2_Witness ==
    \E u \in UserIds, r \in DetachedRefs :
        ~on[u] /\ sched[u] = NoTask /\ TaskAt(u, r).aborted /\ TaskAt(u, r).pc = "cooldown"

\* C3: after each of the time_zone, bedtime, on and off commands the user
\* holds a task handle exactly if on is true and time zone and bedtime are
\* set, and the held task is a fresh one created from the values just stored.
C3_SetterArmsIffEligible ==
    [][\A u \in UserIds :
          (CommandFrame(u) /\ Setter(u)) =>
             /\ sched'[u] # NoTask
                   <=> (on'[u] /\ time_zone'[u] # None /\ bedtime'[u] # None)
             /\ sched'[u] # NoTask =>
                   /\ sched'[u].pc = "waiting"
                   /\ ~sched'[u].aborted
                   /\ sched'[u].tz = time_zone'[u]
                   /\ sched'[u].bt = bedtime'[u]]_vars

\* C3 witness: a user holds a task created from the current bedtime while
\* the task replaced by the last command still exists, and another known
\* user, disabled by off, holds none.
C3_Witness ==
    \E u, v \in UserIds, r \in DetachedRefs :
        /\ sched[u] # NoTask /\ sched[u].bt = bedtime[u]
        /\ detached[u][r] # NoTask
        /\ v \in users /\ ~on[v] /\ sched[v] = NoTask

\* C4: in every reachable state a task handle is held only by a user whose
\* on flag is true and whose time zone and bedtime are both set.
C4_HandleOnlyIfEligible ==
    \A u \in UserIds :
        sched[u] # NoTask => on[u] /\ time_zone[u] # None /\ bedtime[u] # None

\* C4 witness: one user holds a handle while another known user, disabled
\* with time zone and bedtime set, holds none.
C4_Witness ==
    \E u, v \in UserIds :
        /\ sched[u] # NoTask
        /\ v \in users /\ ~on[v] /\ time_zone[v] # None /\ bedtime[v] # None
        /\ sched[v] = NoTask

\* C5: a task on which abort has been called sends no further reminder, does
\* not start a nag episode (the store of allowed_awake = false) and does not
\* re-arm for a later day.
C5_AbortedTaskInert ==
    [][\A u \in UserIds, r \in Refs :
          TaskAt(u, r).aborted =>
             ~SendsReminder(u, r) /\ ~StartsEpisode(u, r) /\ ~Rearms(u, r)]_vars

\* C6: a task on which abort has been called eventually stops executing,
\* wherever it was when abort was called.
C6_AbortedTaskStops ==
    \A u \in UserIds, r \in Refs : TaskAt(u, r).aborted ~> ~TaskAt(u, r).aborted

\* C7: once the wake command has run during a nag episode (allowed_awake is
\* true again), the nag loop leaves at its next check of the flag: the task
\* goes from the check to its daily wait (or is dropped, if aborted) and
\* begins no further iteration, so it sends no reminder after that check.
C7_AckEndsEpisodeAtNextCheck ==
    [][\A u \in UserIds, r \in Refs :
          (allowed_awake[u] /\ \E q \in AllPcs \ {"check"} : Moves(u, r, "check", q))
             => Moves(u, r, "check", "waiting") \/ Moves(u, r, "check", "none")]_vars

\* C7 witness: the held task of a user is at its check, inside an episode,
\* and the wake command has set allowed_awake.
C7_Witness ==
    \E u \in UserIds :
        InEpisode(u) /\ sched[u].pc = "check" /\ allowed_awake[u]

\* A step that takes task r of user u out of nag_loop.
EpisodeEnds(u, r) == TaskAt(u, r).pc \in EpisodePcs /\ TaskAtNext(u, r).pc \notin EpisodePcs

\* C8: a nag episode ends only in one of three ways: the loop reads
\* allowed_awake = true at its check (the wake command has run), the task had
\* been aborted, or a configuration command aborts the held task in that
\* step.  Presence updates, whatever they set, do not end it.
C8_EpisodeEndsOnlyByAckOrAbort ==
    [][\A u \in UserIds, r \in Refs :
          EpisodeEnds(u, r) =>
             \/ TaskAt(u, r).pc = "check" /\ allowed_awake[u] /\ TaskAtNext(u, r).pc = "waiting"
             \/ TaskAt(u, r).aborted /\ TaskAtNext(u, r).pc = "none"
             \/ r = Held /\ Setter(u)]_vars

\* C8 witness: the held task is in the loop with the user marked asleep and
\* the episode not acknowledged.
C8_Witness ==
    \E u \in UserIds :
        InEpisode(u) /\ sched[u].pc = "nag" /\ ~awake[u] /\ ~allowed_awake[u]

\* The held task of user u is in an episode that is not acknowledged while
\* the user is detected awake.
Nagging(u) == InEpisode(u) /\ awake[u] /\ ~allowed_awake[u]

\* C9: if from some point on a user's held task is in an unacknowledged
\* episode and the user stays detected awake (no wake, no offline presence,
\* no reconfiguration), reminders are attempted again and again for ever.
C9_NagsForever ==
    \A u \in UserIds :
        <>[]Nagging(u) => []<><<\E r \in Refs : AttemptsReminder(u, r)>>_vars

\* C10: at process start every loaded user whose record is eligible holds a
\* task created from that record, and every other loaded user holds none.
C10_StartupArms ==
    [][Restart =>
          \A u \in UserIds :
             /\ sched'[u] # NoTask
                   <=> (on'[u] /\ time_zone'[u] # None /\ bedtime'[u] # None)
             /\ sched'[u] # NoTask =>
                   /\ sched'[u].tz = time_zone'[u]
                   /\ sched'[u].bt = bedtime'[u]]_vars

\* The fields of user u that Display reads.
Settings(u) == <<on[u], time_zone[u], bedtime[u]>>

\* C11: the text info shows for a user holds exactly the values last set:
\* each of time_zone, bedtime, on and off puts its value in its own line of
\* the text (a time zone by its name, a bedtime as text that parses back to
\* the bedtime set) and leaves the two other lines alone, and no other step,
\* a restart that reloads the state file included, changes the text.
C11_DescribeRoundTrip ==
    [][\A u \in UserIds :
          /\ (Settings(u)' # Settings(u) /\ describe(u)' # describe(u)) => Setter(u)
          /\ CommandFrame(u) =>
                /\ \A tz \in TimeZones :
                      CmdTimeZone(u, tz) =>
                         /\ ParseTz(describe(u)'.time_zone) = Some(tz)
                         /\ describe(u)' = [describe(u) EXCEPT !.time_zone = describe(u)'.time_zone]
                /\ \A bt \in Bedtimes :
                      CmdBedtime(u, bt) =>
                         /\ TimeFromStr(describe(u)'.bedtime) = Some(bt)
                         /\ describe(u)' = [describe(u) EXCEPT !.bedtime = describe(u)'.bedtime]
                /\ CmdOn(u) => describe(u)' = [describe(u) EXCEPT !.on = "true"]
                /\ CmdOff(u) => describe(u)' = [describe(u) EXCEPT !.on = "false"]]_vars

\* C11 witness: a user whose settings came from the state file at a restart
\* (eligible, yet holding no task) is shown with alerts on, a time zone and
\* an evening bedtime.
C11_Witness ==
    \E u \in users :
        /\ sched[u] = NoTask
        /\ describe(u) = [on |-> "true", time_zone |-> "Europe/Berlin",
                          bedtime |-> "10:30 PM"]

\* A user entry as Default for UserInfo builds it.
IsDefault(u) ==
    /\ on[u] /\ time_zone[u] = None /\ bedtime[u] = None
    /\ awake[u] /\ allowed_awake[u] /\ sched[u] = NoTask

\* C12: every user starts with awake = true, allowed_awake = true and no
\* task: a user with no entry yet gets the entry of Default (on = true, no
\* time zone, no bedtime) at first reference, and every user loaded at
\* process start has both flags true and holds no task.
C12_StartsWithDefaultFlags ==
    [][/\ \A u \in UserIds \ users' : IsDefault(u)'
       /\ Restart => \A u \in users' :
                        awake'[u] /\ allowed_awake'[u] /\ sched'[u] = NoTask]_vars

\* C13: the state file always holds, for every user it has a record of, the
\* on / time zone / bedtime values of memory; every user who ran time_zone,
\* bedtime, on or off has a record from then on; and only those four
\* commands change the file (wake, info, presence updates and task steps
\* never do).
C13_FileMatchesMemory ==
    /\ [](\A u \in UserIds :
            file[u].present =>
                u \in users /\ file[u] = Record(on[u], time_zone[u], bedtime[u]))
    /\ [][/\ \A u \in UserIds :
               /\ ~file'[u].present => ~Setter(u)
               /\ file[u].present => file'[u].present
          /\ file' # file => \E u \in UserIds : Setter(u)]_vars
C13_Witness ==
    \E u, v \in users :
        /\ u # v
        /\ file[u] = [present |-> TRUE, on |-> TRUE,
                      time_zone |-> Some("Europe/Berlin"), bedtime |-> Some("23:00:00")]
        /\ file[v] = [present |-> TRUE, on |-> FALSE, time_zone |-> None, bedtime |-> None]
        /\ ~awake[v] /\ allowed_awake[u] /\ sched[u].pc = "check"

\* C14: a presence update of user u sets u's awake flag to true for every
\* status other than Offline and to false for Offline, and changes nothing
\* else: no other user's flag, no allowed_awake, no setting, no task, not
\* the state file.
C14_PresenceSetsAwake ==
    [][\A u \in UserIds, status \in OnlineStatuses :
          PresenceUpdate(u, status) =>
              /\ awake'[u] = (status # "Offline")
              /\ \A v \in UserIds \ {u} : awake'[v] = awake[v]
              /\ UNCHANGED <<on, time_zone, bedtime, allowed_awake, sched, detached, file>>]_vars
C14_Witness ==
    \E u, v \in users :
        /\ ~awake[u] /\ ~file[u].present
        /\ awake[v] /\ file[v].present /\ ~allowed_awake[v] /\ sched[v] = NoTask

\* The argument texts that do not parse.
BadTzArgs == {arg \in TzArgs : ParseTz(arg) = None}
BadTimeArgs == {arg \in TimeArgs : TimeFromStr(arg) = None}

\* C15: time_zone or bedtime with an argument that does not parse returns
\* the error and changes nothing: no setting, no flag, no task, no entry
\* of the user map (the caller's included) and not the state file; and no
\* step at which the result turns to an error changes any of these.
C15_ParseErrorChangesNothing ==
    [][/\ \A u \in UserIds :
             /\ \A arg \in BadTzArgs :
                   cmd_time_zone(u, arg) =>
                       /\ result' = "Err"
                       /\ UNCHANGED <<users, on, time_zone, bedtime, awake,
                                      allowed_awake, sched, detached, file>>
             /\ \A arg \in BadTimeArgs :
                   cmd_bedtime(u, arg) =>
                       /\ result' = "Err"
                       /\ UNCHANGED <<users, on, time_zone, bedtime, awake,
                                      allowed_awake, sched, detached, file>>
       /\ (result = "Ok" /\ result' = "Err") =>
             UNCHANGED <<users, on, time_zone, bedtime, awake,
                         allowed_awake, sched, detached, file>>]_vars
C15_Witness ==
    /\ result = "Err"
    /\ \E u \in users, v \in UserIds \ users :
          sched[u].pc = "cooldown" /\ bedtime[u] = Some([hour |-> 22, minute |-> 30])

\* C16: whatever the nag loops are doing, a command handler and a
\* presence handler get to run for every user: at no time do they stay
\* unable to run from then on.
C16_HandlersNeverBlocked ==
    \A u \in UserIds :
        []<>(/\ ENABLED CmdWake(u)
             /\ \A status \in OnlineStatuses : ENABLED PresenceUpdate(u, status))

\* The trigger of task r of user u fires: the task is polled with its job
\* due and enters nag_loop.
Fires(u, r) == Moves(u, r, "waiting", "entry")

\* C17: a user who from some point on holds a task, is not reconfigured or
\* disabled any more and has every episode acknowledged (allowed_awake set
\* again by wake) has the
\* trigger of the held task fire again and again, for ever.
C17_FiresEveryDay ==
    \A u \in UserIds :
        (/\ <>[](sched[u] # NoTask)
         /\ <>[][~Setter(u)]_vars
         /\ (InEpisode(u) ~> allowed_awake[u]))
            => []<><<Fires(u, Held)>>_vars

\* C19: a task gets inside nag_loop (to its check, and from there to any
\* reminder) only by the step that stores allowed_awake = false, so the
\* flag is false when the episode begins whatever wake did before; and the
\* flag turns true again only by a wake command of that user, so an episode
\* ends at the check only after a wake that ran after the trigger fired.
C19_EpisodeStartsUnacknowledged ==
    [][\A u \in UserIds :
          /\ \A r \in Refs :
                LET p == TaskAt(u, r).pc
                    q == TaskAtNext(u, r).pc
                IN  (p \notin EpisodePcs /\ q \in EpisodePcs /\ Moves(u, r, p, q)) =>
                        /\ p = "entry" /\ q = "check"
                        /\ ~allowed_awake'[u]
          /\ (~allowed_awake[u] /\ allowed_awake'[u]) => CmdWake(u)]_vars
C19_Witness ==
    \E u \in users :
        /\ sched[u].pc = "nag" /\ ~sched[u].aborted
        /\ ~allowed_awake[u] /\ awake[u]
        /\ \A r \in DetachedRefs : detached[u][r] = NoTask

\* C20: in an iteration of nag_loop that goes on, a task that reads awake =
\* true attempts one reminder (create_dm_channel, then the message unless
\* that failed) and then takes one cooldown before it is back at the check;
\* a task that reads awake = false is back at the check in that same step,
\* with no reminder, no cooldown and no suspension.  A reminder is attempted
\* only after a read of true and a cooldown taken only after an attempt.
C20_IterationShape ==
    [][\A u \in UserIds, r \in Refs :
          LET p == TaskAt(u, r).pc
              q == TaskAtNext(u, r).pc
          IN  (p # q /\ Moves(u, r, p, q)) =>
                  /\ p = "nag" => IF awake[u] THEN q \in {"dm", "none"} ELSE q = "check"
                  /\ p = "dm" => q \in {"say", "cooldown", "waiting", "none"}
                  /\ p = "say" => q \in {"cooldown", "waiting", "none"}
                  /\ p = "cooldown" => q = "check"
                  /\ q = "dm" => p = "nag" /\ awake[u]
                  /\ q = "say" => p = "dm"
                  /\ q = "cooldown" => p \in {"dm", "say"}
                  /\ q = "nag" => p = "check"]_vars
C20_Witness ==
    \E u, v \in users :
        /\ sched[u].pc = "cooldown" /\ awake[u] /\ ~allowed_awake[u]
        /\ sched[v].pc = "check" /\ ~awake[v] /\ ~allowed_awake[v]

\* create_dm_channel or chan.say of task r of user u returns an error.
TransportFailure(u, r) == DmDone(u, r, FALSE) \/ SayDone(u, r, FALSE)

\* C21: a failed create_dm_channel or a failed send leaves the task in
\* nag_loop, at its cooldown, and changes nothing else: no flag, no setting,
\* no entry of the user map, no other task, not the state file.  From the
\* cooldown the held task attempts the next reminder, unless the episode is
\* acknowledged, the user is seen offline or a command replaces the task.
C21_FailureKeepsEpisode ==
    /\ [][\A u \in UserIds, r \in Refs :
             TransportFailure(u, r) =>
                 /\ TaskAtNext(u, r) = [TaskAt(u, r) EXCEPT !.pc = "cooldown"]
                 /\ \A v \in UserIds, q \in Refs :
                       <<v, q>> # <<u, r>> => TaskAtNext(v, q) = TaskAt(v, q)
                 /\ UNCHANGED <<users, on, time_zone, bedtime, awake, allowed_awake, file>>]_vars
    /\ \A u \in UserIds :
          (sched[u].pc = "cooldown")
             ~> (\/ sched[u].pc = "dm"
                 \/ allowed_awake[u] \/ ~awake[u]
                 \/ sched[u].pc \notin EpisodePcs)
C21_Witness ==
    \E u \in users :
        /\ sched[u].pc = "cooldown" /\ ~sched[u].aborted
        /\ awake[u] /\ ~allowed_awake[u] /\ on[u]
        /\ \E v \in users \ {u} : sched[v].pc = "say"

\* The fields of user u's entry.
UserState(u) == <<on[u], time_zone[u], bedtime[u], awake[u], allowed_awake[u], sched[u]>>

\* A step of a command or presence handler for user u, or of one of u's tasks.
OperationOn(u) ==
    \/ Setter(u)
    \/ CmdWake(u)
    \/ CmdInfo(u)
    \/ \E status \in OnlineStatuses : PresenceUpdate(u, status)
    \/ \E r \in Refs : TaskStep(u, r)

\* C22: a step that changes on, time zone, bedtime, awake, allowed_awake
\* or the held task of a user is not a command, presence update or task
\* step of any other user: every operation on one user leaves these fields
\* of every other user as they were.
C22_OtherUsersUnchanged ==
    [][\A v \in UserIds :
          UserState(v)' # UserState(v) =>
              \A u \in UserIds \ {v} : ~OperationOn(u)]_vars
C22_Witness ==
    \E u, v \in users :
        /\ sched[u].pc = "dm" /\ ~allowed_awake[u] /\ awake[u]
        /\ sched[v].pc = "waiting" /\ allowed_awake[v] /\ ~awake[v]
        /\ bedtime[u] # bedtime[v]
        /\ \E r \in DetachedRefs : detached[v][r].pc = "nag"

\* C23: each of time_zone, bedtime, on and off calls abort on the task the
\* user held and replaces the handle, whether or not a setting changed: after
\* the command the held task is a new one waiting for its trigger (or there
\* is none), whatever is left of the old task is marked aborted, and
\* allowed_awake is as it was.  An aborted task neither attempts nor sends a
\* reminder, so none is sent before the trigger of the new task has fired.
C23_SetterCancelsHeldTask ==
    [][\A u \in UserIds :
          /\ (CommandFrame(u) /\ Setter(u)) =>
                /\ sched'[u].pc \in {"waiting", "none"} /\ ~sched'[u].aborted
                /\ \A r \in DetachedRefs :
                      detached'[u][r] # NoTask => detached'[u][r].aborted
                /\ Cardinality({r \in DetachedRefs : detached'[u][r] # NoTask})
                      = Cardinality({r \in DetachedRefs : detached[u][r] # NoTask})
                          + (IF sched[u].pc \in RunningPcs THEN 1 ELSE 0)
                /\ allowed_awake'[u] = allowed_awake[u]
          /\ \A r \in Refs :
                TaskAt(u, r).aborted =>
                    ~AttemptsReminder(u, r) /\ ~SendsReminder(u, r)]_vars
C23_Witness ==
    \E u \in users, r \in DetachedRefs :
        /\ on[u] /\ sched[u].pc = "waiting"
        /\ ~allowed_awake[u] /\ awake[u]
        /\ detached[u][r].aborted /\ detached[u][r].pc = "cooldown"
====
